---- MODULE Spec2Model ----
(***************************************************************************)
(* State-machine model of MutationServer (the mutation-server client of    *)
(* the Stryker VS Code extension): engine process launch, port discovery   *)
(* from standard output, the WebSocket transport, the JSON-RPC client and  *)
(* the progress-notification subscriptions of mutate.                      *)
(*                                                                         *)
(* One action is one turn of the Node.js event loop: an event handler or a *)
(* public call together with everything it runs synchronously and the      *)
(* promise continuations that follow it.                                   *)
(***************************************************************************)
EXTENDS Integers, Sequences, FiniteSets, TLC

(* ---------------------------- bounds ----------------------------------- *)

\* number of instrument/mutate calls issued on one server instance
MaxRequests == 2
\* number of text frames the engine pushes over the socket
MaxFrames == 2

(* ---------------------------- value sets -------------------------------- *)

\* request ids handed out by the JSON-RPC client: 1, 2, ...
Ids == 1..MaxRequests
\* an id no request ever had
UnknownId == MaxRequests + 1
\* partialResultToken values chosen by callers of mutate
Tokens == {"t1", "t2"}
\* a token that belongs to no call
UnknownToken == "t9"
\* values of progress notifications
Values == {"v1", "v2"}
\* result / error payloads of responses
Payloads == {"p1", "p2"}
\* ports the engine may announce in its banner
Ports == {54321, 54322}

None == "none"

VARIABLES
    execPath,       \* the configured mutationServerExecutablePath: "set" or "unset"
    create,         \* position of the create() call
    process,        \* engine process: "none", "failed" (no pid), "running", "exited"
    spawnCount,     \* number of spawn() calls made
    scanners,       \* stdout 'data' listeners registered by the port wait
    port,           \* value the port wait resolved with, 0 while unresolved
    webSocket,      \* readyState of this.webSocket: "none", "connecting", "open", "closed"
    wsPort,         \* port the socket was created for, 0 if none
    wsCount,        \* number of WebSocket objects constructed
    openListeners,  \* 'open' listeners on the socket, each the id of the request it will send
    rpcClient,      \* TRUE once this.rpcClient is assigned
    nextId,         \* id counter of the JSON-RPC client
    pending,        \* ids in the client's id-to-resolver map
    sent,           \* sequence of request ids written with webSocket.send
    kind,           \* per id: "none", "instrument", "mutate"
    tok,            \* per id: partialResultToken of the mutate call
    reqOutcome,     \* per id: outcome of rpcClient.request
    subs,           \* ids of the mutate calls whose progress subscription is live
    cbLog,          \* per id: values passed to the call's onPartialResult, in order
    errLog,         \* kinds of message passed to logger.logError
    notified,       \* TRUE once logger.errorNotification was called
    failedCalls,    \* calls that threw 'Setup method not called.'
    milestones,     \* order in which create() went through its stages
    lastFrame,      \* the frame of the 'message' event this step handled, NoFrame after any other step
    lastChunk,      \* the banner number of the stdout chunk this step handled, 0 after any other step
    nFrames,        \* number of 'message' events handled
    answered        \* ids of the requests the engine answered after they were sent

vars == <<execPath, create, process, spawnCount, scanners, port, webSocket, wsPort,
          wsCount, openListeners, rpcClient, nextId, pending, sent, kind, tok,
          reqOutcome, subs, cbLog, errLog, notified, failedCalls, milestones,
          lastFrame, lastChunk, nFrames, answered>>

procVars == <<process, spawnCount, scanners, port>>
sockVars == <<webSocket, wsPort, wsCount, openListeners>>
rpcVars  == <<rpcClient, nextId, pending, sent, kind, tok, reqOutcome>>
subVars  == <<subs, cbLog>>
logVars  == <<errLog, notified>>
frameVars == <<nFrames, answered>>

(* ---------------------------- frames ------------------------------------ *)

Frame(parse, hasId, id, method, token, value, body, payload) ==
    [parse |-> parse, hasId |-> hasId, id |-> id, method |-> method,
     token |-> token, value |-> value, body |-> body, payload |-> payload]

\* text that JSON.parse rejects
MalformedFrame == Frame("fail", FALSE, 0, None, None, None, None, None)
\* the text "null": parses, but to a falsy value
NullFrame == Frame("null", FALSE, 0, None, None, None, None, None)
NoFrame == Frame(None, FALSE, 0, None, None, None, None, None)

\* {id, result} (carrying p1) and {id, error} (carrying p2) for the id of
\* each request, and a result for an id no request has
ResponseFrames ==
    { Frame("ok", TRUE, i, None, None, None, "result", "p1") : i \in Ids }
    \cup { Frame("ok", TRUE, i, None, None, None, "error", "p2") : i \in Ids }
    \cup { Frame("ok", TRUE, UnknownId, None, None, None, "result", "p1") }

\* {method: "progress", params: {token, value}}: without an id (two values
\* for t1, one for t2 and for the unknown token), with the falsy id 0, and
\* with the id of a request
ProgressFrames ==
    { Frame("ok", FALSE, 0, "progress", "t1", v, None, None) : v \in Values }
    \cup { Frame("ok", FALSE, 0, "progress", t, "v1", None, None) :
            t \in {"t2", UnknownToken} }
    \cup { Frame("ok", TRUE, i, "progress", "t1", "v1", None, None) : i \in {0, 1} }

\* a notification of another method
OtherFrames == { Frame("ok", FALSE, 0, "other", None, None, None, None) }

Frames == {MalformedFrame, NullFrame} \cup ResponseFrames \cup ProgressFrames
          \cup OtherFrames

(* ---------------------------- pure helpers ------------------------------ *)

\* const isNotification = !response.id : an absent id and a falsy id (0)
\* both make the message a notification
IsNotification(f) == ~f.hasId \/ f.id = 0

\* progressNotification$ : filter(request.method === 'progress')
IsProgress(f) == f.method = "progress"

\* a subscription without the token filter
TokenMatchesAny(f, t) == TRUE

\* mutate's filter(progress.token === params.partialResultToken)
TokenMatches(f, t) == f.token = t

Pending == [st |-> "pending", val |-> None]
Unissued == [st |-> "unissued", val |-> None]

\* what rpcClient.request (JSONRPCClient of json-rpc-2.0) makes of the
\* response its id was resolved with: a result resolves it, an error
\* rejects it with the error, a message with neither rejects it
ResponseOutcome(f) ==
    IF f.body = "result" THEN [st |-> "resolved", val |-> f.payload]
    ELSE IF f.body = "error" THEN [st |-> "rejected", val |-> f.payload]
    ELSE [st |-> "rejected", val |-> "unexpected"]

\* a client that completes its oldest outstanding request, whatever the id
LookupOldest(pend, id) ==
    IF pend # {} THEN {CHOOSE m \in pend : \A o \in pend : m <= o} ELSE {}

\* a client that completes every outstanding request on an unmatched response
LookupOrAll(pend, id) == IF id \in pend THEN {id} ELSE pend

\* rpcClient.receive (JSONRPCClient of json-rpc-2.0): the entries of the
\* id-to-resolver map completed by a message with this id
Lookup(pend, id) == IF id \in pend THEN {id} ELSE {}

\* a wait that registers its 'open' listener whatever the socket's state
ListenersAfterWaitAlways(listeners, state, id) == Append(listeners, id)

\* the send adapter: await waitForOpenSocket(webSocket); webSocket.send(...).
\* waitForOpenSocket registers an 'open' listener unless the socket is open.
ListenersAfterWait(listeners, state, id) ==
    IF state # "open" THEN Append(listeners, id) ELSE listeners

\* an adapter that writes without waiting for the socket to be open
SentAfterWaitAtOnce(s, state, id) == Append(s, id)

\* the adapter writes in the same turn only when the wait resolves at once
SentAfterWait(s, state, id) ==
    IF state = "open" THEN Append(s, id) ELSE s

\* an 'open' event whose listeners do not resume the send adapter
SentAfterOpenDropping(s, listeners) == s

\* an 'open' event that runs the newest listener first
SentAfterOpenNewestFirst(s, listeners) ==
    s \o [k \in 1..Len(listeners) |-> listeners[Len(listeners) + 1 - k]]

\* the 'open' event runs the registered listeners in registration order;
\* each resolves its wait and the adapter then writes its request
SentAfterOpen(s, listeners) == s \o listeners

\* a mutate that has not subscribed when the request goes out
SubsAfterLateSubscribe(s, id) == s

\* mutate subscribes onPartialResult before it issues the request
SubsAfterSubscribe(s, id) == s \cup {id}

\* a create() that does not await connect()
CanReturnEarly(c) == c \in {"awaitPort", "connected"}

\* create(): 'await server.connect(); return server'
CanReturn(c) == c = "connected"

\* a call that swallows the rejection of its request
callOutcomeSwallowingErrors(id) ==
    IF reqOutcome[id].st = "rejected"
         \/ (kind[id] = "mutate" /\ reqOutcome[id].st = "resolved")
    THEN [st |-> "resolved", val |-> "void"]
    ELSE reqOutcome[id]

\* outcome of the instrument / mutate promise of request id: instrument
\* returns the result, mutate awaits the request and returns nothing
callOutcome(id) ==
    IF kind[id] = "mutate" /\ reqOutcome[id].st = "resolved"
    THEN [st |-> "resolved", val |-> "void"]
    ELSE reqOutcome[id]

SeqToSet(s) == { s[i] : i \in 1..Len(s) }

\* no promise continuation of create() is waiting to run
Idle == create \notin {"portResolved", "connected"}

(* ---------------------------- initial state ----------------------------- *)

Init ==
    /\ execPath \in {"set", "unset"}
    /\ create = "notCalled"
    /\ process = "none"
    /\ spawnCount = 0
    /\ scanners = 0
    /\ port = 0
    /\ webSocket = "none"
    /\ wsPort = 0
    /\ wsCount = 0
    /\ openListeners = <<>>
    /\ rpcClient = FALSE
    /\ nextId = 0
    /\ pending = {}
    /\ sent = <<>>
    /\ kind = [i \in Ids |-> None]
    /\ tok = [i \in Ids |-> None]
    /\ reqOutcome = [i \in Ids |-> Unissued]
    /\ subs = {}
    /\ cbLog = [i \in Ids |-> <<>>]
    /\ errLog = {}
    /\ notified = FALSE
    /\ failedCalls = 0
    /\ milestones = <<>>
    /\ lastFrame = NoFrame
    /\ lastChunk = 0
    /\ nFrames = 0
    /\ answered = {}

(* ---------------------------- create() ---------------------------------- *)

\* a constructor without the check of the path
PathUnsetIgnored(path) == FALSE

\* if (!mutationServerExecutablePath)
PathUnset(path) == path = "unset"

\* create(logger): the constructor, then connect() up to its first await.
\* pidDefined: spawn returned a process with a pid.
Create(pidDefined) ==
    /\ create = "notCalled"
    /\ IF PathUnset(execPath)
       THEN /\ errLog' = errLog \cup {"config"}
            /\ create' = "rejected"
            /\ UNCHANGED <<process, spawnCount, scanners, milestones>>
       ELSE /\ spawnCount' = spawnCount + 1
            /\ IF ~pidDefined
               THEN /\ errLog' = errLog \cup {"spawn"}
                    /\ create' = "rejected"
                    /\ process' = "failed"
                    /\ UNCHANGED <<scanners, milestones>>
               ELSE /\ process' = "running"
                    /\ scanners' = scanners + 1
                    /\ create' = "awaitPort"
                    /\ milestones' = <<"spawn", "wait">>
                    /\ UNCHANGED errLog
    /\ lastFrame' = NoFrame
    /\ lastChunk' = 0
    /\ UNCHANGED <<execPath, port, sockVars, rpcVars, subVars, notified,
                   failedCalls, frameVars>>

\* a port wait that acts on every chunk that holds a banner
ResolvesEveryTime(banner, p) == banner # 0

\* the port-wait listener: the chunk matches the banner pattern and calls
\* resolve; a promise settles once, so only the first call has an effect
Resolves(banner, p) == banner # 0 /\ p = 0

\* process.stdout 'data': the logging listener and the port-wait listeners.
\* banner = 0: the chunk does not contain 'Server is listening on port: <n>';
\* otherwise banner is the <n> of the chunk.
StdoutData(banner) ==
    /\ Idle
    /\ process = "running"
    /\ IF scanners > 0 /\ Resolves(banner, port)
       THEN /\ port' = banner
            /\ create' = "portResolved"
            /\ milestones' = Append(milestones, "port")
       ELSE UNCHANGED <<port, create, milestones>>
    /\ lastFrame' = NoFrame
    /\ lastChunk' = banner
    /\ UNCHANGED <<execPath, process, spawnCount, scanners, sockVars, rpcVars,
                   subVars, logVars, failedCalls, frameVars>>

\* an 'exit' listener that launches the engine again
SpawnsAfterExitRestarting(n) == n + 1

\* the 'exit' listener logs the exit code; it spawns nothing
SpawnsAfterExit(n) == n

\* process 'exit': logged, nothing else
ProcessExit ==
    /\ Idle
    /\ process = "running"
    /\ process' = "exited"
    /\ spawnCount' = SpawnsAfterExit(spawnCount)
    /\ lastFrame' = NoFrame
    /\ lastChunk' = 0
    /\ UNCHANGED <<execPath, create, scanners, port, sockVars,
                   rpcVars, subVars, logVars, failedCalls, milestones, frameVars>>

\* connect() after the port wait: connectViaWebSocket(port), then the
\* JSON-RPC client is created
ConnectContinue ==
    /\ create = "portResolved"
    /\ webSocket' = "connecting"
    /\ wsPort' = port
    /\ wsCount' = wsCount + 1
    /\ rpcClient' = TRUE
    /\ create' = "connected"
    /\ milestones' = milestones \o <<"socket", "rpc">>
    /\ lastFrame' = NoFrame
    /\ lastChunk' = 0
    /\ UNCHANGED <<execPath, procVars, openListeners, nextId, pending, sent, kind, tok,
                   reqOutcome, subVars, logVars, failedCalls, frameVars>>

\* create() after 'await server.connect()': the instance reaches the caller
CreateReturn ==
    /\ CanReturn(create)
    /\ create' = "returned"
    /\ milestones' = Append(milestones, "return")
    /\ lastFrame' = NoFrame
    /\ lastChunk' = 0
    /\ UNCHANGED <<execPath, procVars, sockVars, rpcVars, subVars, logVars, failedCalls,
                   frameVars>>

(* ---------------------------- instrument / mutate ----------------------- *)

\* rpcClient.request(method, params): a fresh id, an entry in the
\* id-to-resolver map, then the send adapter
Request(id, method, token) ==
    /\ nextId' = id
    /\ pending' = pending \cup {id}
    /\ kind' = [kind EXCEPT ![id] = method]
    /\ tok' = [tok EXCEPT ![id] = token]
    /\ reqOutcome' = [reqOutcome EXCEPT ![id] = Pending]
    /\ openListeners' = ListenersAfterWait(openListeners, webSocket, id)
    /\ sent' = SentAfterWait(sent, webSocket, id)

\* instrument(params)
Instrument ==
    /\ Idle
    /\ create = "returned"
    /\ nextId < MaxRequests
    /\ IF ~rpcClient
       THEN /\ failedCalls' = failedCalls + 1
            /\ UNCHANGED <<nextId, pending, kind, tok, reqOutcome,
                           openListeners, sent>>
       ELSE /\ Request(nextId + 1, "instrument", None)
            /\ UNCHANGED failedCalls
    /\ lastFrame' = NoFrame
    /\ lastChunk' = 0
    /\ UNCHANGED <<execPath, create, procVars, webSocket, wsPort, wsCount, rpcClient,
                   subVars, logVars, milestones, frameVars>>

\* mutate(params, onPartialResult) with params.partialResultToken = token
Mutate(token) ==
    /\ Idle
    /\ create = "returned"
    /\ nextId < MaxRequests
    /\ IF ~rpcClient
       THEN /\ failedCalls' = failedCalls + 1
            /\ UNCHANGED <<nextId, pending, kind, tok, reqOutcome,
                           openListeners, sent, subs>>
       ELSE /\ subs' = SubsAfterSubscribe(subs, nextId + 1)
            /\ Request(nextId + 1, "mutate", token)
            /\ UNCHANGED failedCalls
    /\ lastFrame' = NoFrame
    /\ lastChunk' = 0
    /\ UNCHANGED <<execPath, create, procVars, webSocket, wsPort, wsCount, rpcClient,
                   cbLog, logVars, milestones, frameVars>>

(* ---------------------------- the socket -------------------------------- *)

\* the socket's 'open' event
SocketOpen ==
    /\ Idle
    /\ webSocket = "connecting"
    /\ webSocket' = "open"
    /\ sent' = SentAfterOpen(sent, openListeners)
    /\ lastFrame' = NoFrame
    /\ lastChunk' = 0
    /\ UNCHANGED <<execPath, create, procVars, wsPort, wsCount, openListeners, rpcClient,
                   nextId, pending, kind, tok, reqOutcome, subVars, logVars,
                   failedCalls, milestones, frameVars>>

\* the socket's 'error' event: logged and shown to the user; the socket
\* closes
SocketError ==
    /\ Idle
    /\ webSocket \in {"connecting", "open"}
    /\ webSocket' = "closed"
    /\ errLog' = errLog \cup {"ws"}
    /\ notified' = TRUE
    /\ lastFrame' = NoFrame
    /\ lastChunk' = 0
    /\ UNCHANGED <<execPath, create, procVars, wsPort, wsCount, openListeners, rpcVars,
                   subVars, failedCalls, milestones, frameVars>>

\* the engine closes the connection: no 'close' listener is registered
SocketClose ==
    /\ Idle
    /\ webSocket = "open"
    /\ webSocket' = "closed"
    /\ lastFrame' = NoFrame
    /\ lastChunk' = 0
    /\ UNCHANGED <<execPath, create, procVars, wsPort, wsCount, openListeners, rpcVars,
                   subVars, logVars, failedCalls, milestones, frameVars>>

\* a router that hands the newest event to the callback ahead of the older ones
DeliveredNewestFirst(f, i) ==
    IF i \in subs /\ IsProgress(f) /\ TokenMatches(f, tok[i])
    THEN <<f.value>> \o cbLog[i]
    ELSE cbLog[i]

\* the values onPartialResult of call i has seen once notification f was
\* published on notification$Subject
Delivered(f, i) ==
    IF i \in subs /\ IsProgress(f) /\ TokenMatches(f, tok[i])
    THEN Append(cbLog[i], f.value)
    ELSE cbLog[i]

\* a handler without the try / catch around JSON.parse
ParseFailsUnnoticed(f) == FALSE

\* JSON.parse(data.toString()) throws
ParseFails(f) == f.parse = "fail"

\* the socket's 'message' event with text frame f
ReceiveFrame(f) ==
    /\ Idle
    /\ webSocket = "open"
    /\ nFrames < MaxFrames
    /\ lastFrame' = f
    /\ lastChunk' = 0
    /\ nFrames' = nFrames + 1
    /\ answered' = IF f.parse = "ok" /\ f.hasId /\ f.id \in SeqToSet(sent)
                   THEN answered \cup {f.id} ELSE answered
    /\ IF ParseFails(f)
       THEN /\ errLog' = errLog \cup {"parse"}
            /\ UNCHANGED <<pending, reqOutcome, cbLog>>
       ELSE IF f.parse = "null"
       THEN UNCHANGED <<errLog, pending, reqOutcome, cbLog>>
       ELSE IF IsNotification(f)
       THEN /\ cbLog' = [i \in Ids |-> Delivered(f, i)]
            /\ UNCHANGED <<errLog, pending, reqOutcome>>
       ELSE /\ pending' = pending \ Lookup(pending, f.id)
            /\ reqOutcome' = [i \in Ids |->
                   IF i \in Lookup(pending, f.id) THEN ResponseOutcome(f)
                   ELSE reqOutcome[i]]
            /\ UNCHANGED <<errLog, cbLog>>
    /\ UNCHANGED <<execPath, create, procVars, sockVars, rpcClient, nextId, sent, kind,
                   tok, subs, notified, failedCalls, milestones>>

(* ---------------------------- specification ----------------------------- *)

Next ==
    \/ \E pidDefined \in BOOLEAN : Create(pidDefined)
    \/ \E banner \in {0} \cup Ports : StdoutData(banner)
    \/ ProcessExit
    \/ ConnectContinue
    \/ CreateReturn
    \/ Instrument
    \/ \E token \in Tokens : Mutate(token)
    \/ SocketOpen
    \/ SocketError
    \/ SocketClose
    \/ \E f \in Frames : ReceiveFrame(f)

Spec == Init /\ [][Next]_vars

\* the promise continuations of create() are run by the event loop
FairSpec == Spec /\ WF_vars(ConnectContinue) /\ WF_vars(CreateReturn)

TypeOK ==
    /\ execPath \in {"set", "unset"}
    /\ create \in {"notCalled", "rejected", "awaitPort", "portResolved",
                   "connected", "returned"}
    /\ process \in {"none", "failed", "running", "exited"}
    /\ webSocket \in {"none", "connecting", "open", "closed"}
    /\ pending \subseteq Ids
    /\ subs \subseteq Ids
    /\ nextId \in 0..MaxRequests
    /\ lastFrame \in Frames \cup {NoFrame}
    /\ lastChunk \in {0} \cup Ports

(* ---------------------------- properties -------------------------------- *)

\* this step handled a 'message' event; its frame is lastFrame'
FrameStep == nFrames' = nFrames + 1

\* C1: a request is completed only by the frame that bears its own id, and
\* with exactly that frame's result or error, in whatever order the
\* responses arrive; a frame bearing the id of an outstanding request
\* completes that request.
C1_OwnResponse ==
    [][\A i \in Ids :
        /\ (reqOutcome[i].st = "pending" /\ reqOutcome'[i] # reqOutcome[i])
             => /\ FrameStep
                /\ lastFrame'.hasId /\ lastFrame'.id = i
                /\ lastFrame'.body = "result"
                     => reqOutcome'[i] = [st |-> "resolved", val |-> lastFrame'.payload]
                /\ lastFrame'.body = "error"
                     => reqOutcome'[i] = [st |-> "rejected", val |-> lastFrame'.payload]
        /\ (FrameStep /\ lastFrame'.hasId /\ lastFrame'.id = i /\ i \in pending)
             => reqOutcome'[i].st # "pending"
        /\ (reqOutcome[i].st \in {"resolved", "rejected"})
             => reqOutcome'[i] = reqOutcome[i]
    ]_vars

\* A (id 1) and B (id 2) were outstanding together, B's response (an error)
\* came first, A's (a result) second, and each holds the payload of its own
C1_Witness ==
    /\ reqOutcome[1] = [st |-> "resolved", val |-> "p1"]
    /\ reqOutcome[2] = [st |-> "rejected", val |-> "p2"]
    /\ lastFrame.hasId /\ lastFrame.id = 1
    /\ nFrames = 2

\* C2: onPartialResult of a mutate call is invoked only by a progress
\* notification that carries the call's own token, once per notification;
\* a progress notification whose token no call has invokes no callback,
\* logs no error and completes no request.
C2_TokenRouting ==
    [][/\ \A i \in Ids :
            cbLog'[i] # cbLog[i]
              => /\ FrameStep
                 /\ lastFrame'.method = "progress"
                 /\ lastFrame'.token = tok[i]
                 /\ cbLog'[i] = Append(cbLog[i], lastFrame'.value)
       /\ (FrameStep /\ lastFrame'.method = "progress" /\ ~lastFrame'.hasId
             /\ \A i \in subs : tok[i] # lastFrame'.token)
              => /\ cbLog' = cbLog
                 /\ errLog' = errLog
                 /\ reqOutcome' = reqOutcome
                 /\ subs' = subs
    ]_vars

\* two concurrent mutate calls with tokens t1 and t2; an event for t1
\* reached call 1 only, then an event with an unknown token came
C2_Witness ==
    /\ kind[1] = "mutate" /\ tok[1] = "t1"
    /\ kind[2] = "mutate" /\ tok[2] = "t2"
    /\ {1, 2} \subseteq pending
    /\ Len(cbLog[1]) = 1
    /\ cbLog[2] = <<>>
    /\ lastFrame.token = UnknownToken
    /\ nFrames = 2

\* C3: the progress subscription of a mutate call is gone once the call
\* has resolved or rejected.
C3_SubscriptionTornDown ==
    \A i \in Ids :
        (kind[i] = "mutate" /\ reqOutcome[i].st \in {"resolved", "rejected"})
          => i \notin subs

\* C4: whenever the request of a mutate call is with the transport (written
\* to the socket, or waiting for the socket to open), the call's progress
\* subscription is live; a progress notification for the call's token that
\* arrives while the sent request is outstanding reaches onPartialResult.
C4_SubscribedBeforeSend ==
    /\ [](\A i \in Ids :
            (kind[i] = "mutate"
               /\ i \in SeqToSet(sent) \cup SeqToSet(openListeners))
              => i \in subs)
    /\ [][\A i \in Ids :
            (/\ kind[i] = "mutate"
             /\ i \in SeqToSet(sent) /\ i \in pending
             /\ FrameStep
             /\ lastFrame'.parse = "ok" /\ ~lastFrame'.hasId
             /\ lastFrame'.method = "progress" /\ lastFrame'.token = tok[i])
              => cbLog'[i] = Append(cbLog[i], lastFrame'.value)
       ]_vars

\* a mutate request was written to the socket and a progress event for its
\* token arrived before the response
C4_Witness ==
    \E i \in Ids :
        /\ kind[i] = "mutate"
        /\ i \in SeqToSet(sent) /\ i \in pending
        /\ Len(cbLog[i]) = 1
        /\ nFrames = 1

\* C5: once the connection has errored or closed, no request is pending.
C5_NoPendingAfterClose ==
    webSocket = "closed" => pending = {}

\* this step handled a frame bearing the id of the outstanding request i
AnsweredStep(i) ==
    /\ i \in pending
    /\ FrameStep
    /\ lastFrame'.parse = "ok" /\ lastFrame'.hasId /\ lastFrame'.id = i

\* C7 as stated: an error response rejects the call with the error and
\* removes the request from the pending set; a result response resolves
\* the call, instrument or mutate, with that result.
C7_CallTakesPayload ==
    [][\A i \in Ids :
        AnsweredStep(i)
          => /\ i \notin pending'
             /\ lastFrame'.body = "error"
                  => callOutcome(i)' = [st |-> "rejected", val |-> lastFrame'.payload]
             /\ lastFrame'.body = "result"
                  => callOutcome(i)' = [st |-> "resolved", val |-> lastFrame'.payload]
    ]_vars

\* C7 amended: an error response rejects the call with the error and
\* removes the request from the pending set; a result response resolves
\* the call: instrument resolves with that result, mutate resolves without
\* a value.
C7_ErrorRejectsResultResolves ==
    [][\A i \in Ids :
        AnsweredStep(i)
          => /\ i \notin pending'
             /\ lastFrame'.body = "error"
                  => callOutcome(i)' = [st |-> "rejected", val |-> lastFrame'.payload]
             /\ lastFrame'.body = "result"
                  => /\ callOutcome(i)'.st = "resolved"
                     /\ kind[i] = "instrument"
                          => callOutcome(i)'.val = lastFrame'.payload
                     /\ kind[i] = "mutate" => callOutcome(i)'.val = "void"
    ]_vars

\* an instrument call was rejected with the error of its response and a
\* mutate call resolved on its result
C7_Witness ==
    /\ kind[1] = "instrument"
    /\ callOutcome(1) = [st |-> "rejected", val |-> "p2"]
    /\ kind[2] = "mutate"
    /\ callOutcome(2).st = "resolved"
    /\ pending = {}

\* C9: when create() has handed out the instance, the process was
\* launched, the port discovered, the socket created for that port and the
\* RPC client armed, in that order; no call has run without an RPC client
\* and everything sent belongs to a call made on the returned instance.
C9_ReadyOnlyWhenArmed ==
    /\ create = "returned"
         => /\ milestones = <<"spawn", "wait", "port", "socket", "rpc", "return">>
            /\ spawnCount = 1
            /\ port \in Ports
            /\ wsCount = 1 /\ wsPort = port /\ webSocket # "none"
            /\ rpcClient
    /\ nextId > 0 => create = "returned"
    /\ failedCalls = 0
    /\ ~rpcClient => (sent = <<>> /\ openListeners = <<>> /\ pending = {})

\* a caller has run an operation on the instance create() returned
C9_Witness ==
    /\ create = "returned"
    /\ nextId = 1
    /\ sent = <<1>>

\* C10: with the executable path unset, or no process id from spawn,
\* create() rejects after logging an error; no instance is produced and no
\* port wait, socket or RPC client exists; with the path unset nothing was
\* spawned.
C10_ConstructionFailure ==
    /\ ((execPath = "unset" \/ process = "failed") /\ create # "notCalled")
         => /\ create = "rejected"
            /\ errLog \cap {"config", "spawn"} # {}
            /\ scanners = 0 /\ port = 0
            /\ webSocket = "none" /\ wsCount = 0
            /\ ~rpcClient
            /\ nextId = 0 /\ milestones = <<>>
    /\ execPath = "unset" => (spawnCount = 0 /\ process = "none")
    /\ create = "rejected" => (execPath = "unset" \/ process = "failed")

\* create() was called with the path unset and rejected
C10_Witness ==
    /\ execPath = "unset"
    /\ create = "rejected"
    /\ "config" \in errLog

\* C6: if the engine process exits before the banner was seen, create()
\* eventually fails.
C6_PortWaitFails ==
    (process = "exited" /\ port = 0) ~> (create = "rejected")

\* the latest frame is a result response bearing id i
ResultFor(i) ==
    /\ lastFrame.parse = "ok" /\ lastFrame.hasId /\ lastFrame.id = i
    /\ lastFrame.body = "result"

\* the engine prints the banner, accepts the connection and keeps it up,
\* and answers request 1, once it was sent, with a result and with nothing
\* else
EngineCooperates ==
    /\ (create = "awaitPort") ~> (port # 0)
    /\ (webSocket = "connecting") ~> (webSocket = "open")
    /\ [](webSocket # "closed")
    /\ []((lastFrame.hasId /\ lastFrame.id = 1) => ResultFor(1))
    /\ (1 \in SeqToSet(sent) /\ 1 \notin answered) ~> (1 \in answered)

\* C8: with such an engine, create() returns once called, and an
\* instrument request (the first request of the instance) is sent and
\* resolves with the result of its response.
C8_EndToEnd ==
    EngineCooperates
      => /\ (create = "awaitPort") ~> (create = "returned")
         /\ (kind[1] = "instrument" /\ reqOutcome[1].st = "pending")
              ~> (/\ 1 \in SeqToSet(sent)
                  /\ ResultFor(1)
                  /\ callOutcome(1) = [st |-> "resolved", val |-> lastFrame.payload])

\* instrument was called while the socket was still connecting, and has
\* resolved with the result of its response
C8_Witness ==
    /\ kind[1] = "instrument"
    /\ openListeners = <<1>>
    /\ sent = <<1>>
    /\ callOutcome(1) = [st |-> "resolved", val |-> "p1"]

----------------------------------------------------------------------------
\* a parsed message without an id field that reports progress for token t
ProgressEventFor(f, t) ==
    f.parse = "ok" /\ ~f.hasId /\ f.method = "progress" /\ f.token = t

\* C11: while the subscription of a mutate call is live, every progress
\* event that carries its token is handed to its callback in the step that
\* receives the frame, once, behind everything the callback has seen before;
\* the values the callback has seen are never reordered, dropped or repeated
\* by any other step.
C11_DeliveredInArrivalOrder ==
    [][\A i \in Ids :
         /\ (FrameStep /\ i \in subs /\ ProgressEventFor(lastFrame', tok[i]))
              => cbLog'[i] = Append(cbLog[i], lastFrame'.value)
         /\ \/ cbLog'[i] = cbLog[i]
            \/ FrameStep /\ cbLog'[i] = Append(cbLog[i], lastFrame'.value)
      ]_vars

\* a mutate call for t1 has seen v2 and then v1, the order of the two frames
C11_Witness ==
    \E i \in Ids :
        /\ tok[i] = "t1"
        /\ cbLog[i] = <<"v2", "v1">>
        /\ nFrames = 2
        /\ ProgressEventFor(lastFrame, "t1")
        /\ lastFrame.value = "v1"

\* C12: a parsed message is classified by the presence of an id field alone:
\* a message without one never completes or changes a pending request, and
\* a message with one (whatever its value, 0 included) is never published
\* on the notification router, so no callback sees it.
C12_ClassifiedByIdPresence ==
    [][(FrameStep /\ lastFrame'.parse = "ok")
         => /\ ~lastFrame'.hasId
                 => /\ pending' = pending
                    /\ reqOutcome' = reqOutcome
            /\ lastFrame'.hasId => cbLog' = cbLog
      ]_vars

\* a request is made in this step
IssueStep == nextId' = nextId + 1

\* C13: the send adapter writes only to an open socket: nothing is written
\* before the 'open' event, a request made while the socket is connecting
\* is held behind an 'open' listener, and every step that writes leaves the
\* socket open.
C13_SendOnlyWhenOpen ==
    /\ [](webSocket \in {"none", "connecting"} => sent = <<>>)
    /\ [][/\ sent' # sent => webSocket' = "open"
          /\ (IssueStep /\ webSocket = "connecting")
               => /\ sent' = sent
                  /\ openListeners' = Append(openListeners, nextId')
       ]_vars

\* a mutate request made while the socket was connecting was written after
\* the socket opened
C13_Witness ==
    /\ webSocket = "open"
    /\ kind[1] = "mutate"
    /\ openListeners = <<1>>
    /\ sent = <<1>>
    /\ nFrames = 0

\* C14: a frame that is not valid JSON is logged and dropped: the step that
\* receives it records a parse error and leaves the pending requests, the
\* call outcomes, the subscriptions, the callbacks' histories and the socket
\* as they were; frames received after it are handled as usual: a response
\* still completes its pending request and a progress event still reaches
\* the subscribed callback.
C14_MalformedFrameDropped ==
    [][/\ (FrameStep /\ lastFrame'.parse = "fail")
            => /\ "parse" \in errLog'
               /\ UNCHANGED <<pending, reqOutcome, subs, cbLog, notified>>
               /\ UNCHANGED <<webSocket, rpcClient, create, failedCalls>>
       /\ "parse" \in errLog
            => \A i \in Ids :
                 /\ (AnsweredStep(i) /\ i \in pending)
                      => /\ i \notin pending'
                         /\ reqOutcome'[i] = ResponseOutcome(lastFrame')
                 /\ (FrameStep /\ i \in subs /\ ProgressEventFor(lastFrame', tok[i]))
                      => cbLog'[i] = Append(cbLog[i], lastFrame'.value)
      ]_vars

\* of two frames received, one was malformed and was logged, and the
\* response received after it has resolved request 1
C14_Witness ==
    /\ "parse" \in errLog
    /\ nFrames = 2
    /\ lastFrame.parse = "ok" /\ lastFrame.hasId /\ lastFrame.id = 1
    /\ lastFrame.body = "result"
    /\ reqOutcome[1] = [st |-> "resolved", val |-> lastFrame.payload]

\* a parsed message with an id field and a result or an error
IsResponse(f) ==
    f.parse = "ok" /\ f.hasId /\ f.body \in {"result", "error"}

\* C15: a response whose id matches no outstanding request, because the id
\* was never issued or because its request has completed already, is
\* discarded silently: the pending set and every call's outcome stay as
\* they were, and nothing is logged, notified or handed to a callback.
C15_UnmatchedResponseDiscarded ==
    [][(FrameStep /\ IsResponse(lastFrame') /\ lastFrame'.id \notin pending)
         => UNCHANGED <<pending, reqOutcome, cbLog, errLog, notified, failedCalls>>
      ]_vars

\* request 1 was resolved with p1 and a second response with id 1, an error,
\* arrived while another request was still outstanding
C15_Witness ==
    /\ reqOutcome[1] = [st |-> "resolved", val |-> "p1"]
    /\ IsResponse(lastFrame) /\ lastFrame.id = 1 /\ lastFrame.body = "error"
    /\ nFrames = 2
    /\ pending = {2}

\* a stdout chunk with a banner is handled in this step, after the port wait
\* has resolved
LateBannerStep == port # 0 /\ lastChunk' # 0

\* C16: the port wait is single-shot: it resolves with the port of the
\* first banner, that port is the one the socket is created for, and a
\* banner printed later, with the same number or another, changes neither
\* the resolved port nor the progress of create(), and starts no second
\* connection.
C16_PortWaitSingleShot ==
    /\ [](wsCount <= 1 /\ (wsCount = 1 => wsPort = port))
    /\ [][/\ (port = 0 /\ port' # 0) => port' = lastChunk'
          /\ port # 0 => port' = port
          /\ LateBannerStep => UNCHANGED <<create, milestones, sockVars, rpcClient>>
       ]_vars

\* the wait resolved with 54321 and the socket was created for it; the engine
\* has now printed a banner with 54322
C16_Witness ==
    /\ port = 54321
    /\ wsPort = 54321
    /\ wsCount = 1
    /\ lastChunk = 54322

\* C17: once the port wait has resolved, its stdout scanner is unsubscribed:
\* no scanner is attached to the engine's stdout any more, so a later chunk
\* is matched against the banner pattern by nothing.
C17_ScannerUnsubscribed ==
    port # 0 => scanners = 0

\* C18: on a socket that is open already the wait resolves at once and
\* registers no 'open' listener: a request made in that state is written in
\* the same step and the socket's listeners stay as they were, however
\* often this is repeated.
C18_OpenWaitRegistersNothing ==
    [][(IssueStep /\ webSocket = "open")
         => /\ openListeners' = openListeners
            /\ sent' = Append(sent, nextId')
      ]_vars

\* two requests were made on the open socket: both were written and no
\* 'open' listener was ever registered
C18_Witness ==
    /\ webSocket = "open"
    /\ nextId = 2
    /\ sent = <<1, 2>>
    /\ openListeners = <<>>

\* C19: an instance launches one engine process and creates at most one
\* socket in its lifetime: once the constructor has spawned the engine there
\* is exactly one spawn, whatever exits, errors and closes follow, and the
\* socket, once created, is never replaced by another.
C19_OneProcessOneSocket ==
    /\ [](/\ spawnCount <= 1
          /\ wsCount <= 1
          /\ process # "none" => spawnCount = 1
          /\ webSocket # "none" => wsCount = 1)
    /\ [][/\ spawnCount > 0 => spawnCount' = spawnCount
          /\ wsCount > 0 => wsCount' = wsCount /\ wsPort' = wsPort
       ]_vars

\* the engine has exited and the socket has failed: still one spawn and
\* one socket, and calls are still being made
C19_Witness ==
    /\ process = "exited"
    /\ webSocket = "closed"
    /\ "ws" \in errLog
    /\ spawnCount = 1
    /\ wsCount = 1
    /\ nextId = MaxRequests

\* the ids 1..n in ascending order, the order in which requests are made
IssueOrder(n) == [k \in 1..n |-> k]

\* C20: the requests made while the socket is connecting are written once
\* each, in the order they were made, when the socket opens: the 'open'
\* step writes exactly the waiting requests in issue order, nothing was
\* written before it, and while the socket is open every request made so
\* far has been written exactly once, in issue order.
C20_QueuedRequestsFlushedInOrder ==
    /\ [](/\ webSocket = "connecting"
               => sent = <<>> /\ openListeners = IssueOrder(nextId)
          /\ webSocket = "open" => sent = IssueOrder(nextId))
    /\ [][(webSocket = "connecting" /\ webSocket' = "open")
            => sent' = IssueOrder(nextId) /\ sent' = openListeners
       ]_vars

\* two requests were made while the socket was connecting; the socket has
\* opened and both are written, 1 before 2
C20_Witness ==
    /\ webSocket = "open"
    /\ openListeners = <<1, 2>>
    /\ sent = <<1, 2>>

====
